---------------------------- MODULE Spec2Model ----------------------------
(***************************************************************************)
(* FPL league sync: the paginators, the period resolver, the reconcile     *)
(* step, the store upserts and the trigger handlers of                     *)
(*   src/unnamed/part_000          (scheduled trigger, "FIXED VERSION")    *)
(*   src/unnamed/part_001          (manual trigger)                        *)
(*   src/unnamed/part_002          (diagnostic probe)                      *)
(*   src/api/cron/sync-fpl-data.js (scheduled trigger, per-manager sync)   *)
(*   src/api/proxy.js              (pass-through proxy of the upstream)    *)
(*                                                                         *)
(* Display strings (player_name, entry_name, captain_name) and timestamps  *)
(* (last_updated, updated_at) are copied through by the code and never     *)
(* read; they are left out of the records below.                           *)
(***************************************************************************)
EXTENDS Integers, Sequences, FiniteSets, TLC

VARIABLES
    \* ---- one pagination of one league (SpecPag) ----
    pgVariant,  \* which paginator runs: "fetchAllManagers" | "getAllManagersFromLeague"
    pgPc,       \* "run" | "ret" | "done"
    managers,   \* fetchAllManagers: the accumulator `managers`
    page,       \* fetchAllManagers: `page`
    hasMore,    \* fetchAllManagers: `hasMore`
    stack,      \* getAllManagersFromLeague: the `managers` array of every active call, outermost first
    retval,     \* the value being returned (to the caller frame, or finally to the caller)
    served      \* history: the upstream's answers to the page requests issued so far, in order

VARIABLES
    \* ---- one call of getCurrentGW (SpecGW) ----
    gwBootstrap,  \* the upstream's answer to /bootstrap-static/
    gwPc,         \* "call" | "done"
    gwResult      \* the value getCurrentGW returned

VARIABLES
    \* ---- one reconcile step (SpecRec) ----
    rcClassic,    \* classicManagers
    rcLms,        \* lmsManagers
    rcH2h,        \* h2hManagers
    rcTrigger,    \* whose map ran: "none" | "scheduled" | "manual"
    rcOut         \* managerData

VARIABLES
    \* ---- the deployment: configuration and store (Spec, SpecAuth) ----
    envStore,         \* SUPABASE_URL and SUPABASE_KEY are both set
    envSecret,        \* process.env.CRON_SECRET, Absent when unset
    manager_data,     \* the snapshot table: a set of rows
    season_snapshot,  \* the current-period marker table: a set of rows
    \* ---- the handler invocation in progress, or the last one ended ----
    handler,          \* "none" | "scheduled" (part_000) | "manual" (part_001) | "cron" (sync-fpl-data.js) | "probe" (part_002) | "proxy" (proxy.js)
    pc,               \* where the invocation stands; "idle" between invocations
    req,              \* the request's headers
    currentGW,        \* const currentGW
    classicManagers,  \* classicManagers (part_000, part_001), allManagers (sync-fpl-data.js)
    lmsManagers,      \* lmsManagers
    h2hManagers,      \* h2hManagers
    managerData,      \* managerData, the records handed to the bulk upsert
    idx,              \* sync-fpl-data.js: position of `for (const manager of allManagers)`
    diagStep,         \* part_002: diagnostics.step
    response,         \* what res.status(..).json(..) sent, NoResponse before
    \* ---- history ----
    runs,             \* invocations started
    nFetch,           \* upstream requests this invocation issued
    nWrite,           \* store writes this invocation issued
    failed,           \* this invocation: a store write failed or the handler's catch ran
    lastWrite,        \* the records of the latest write the store applied
    overwrote         \* that write replaced a stored row holding other values

VARIABLES
    \* ---- one trigger's three paginations, page by page (SpecPar) ----
    parTrigger,   \* whose handler runs: "scheduled" | "manual"
    parGW,        \* const currentGW
    parScripts,   \* the upstream's contents: per league, the answers to pages 1, 2, ...
    parTask,      \* per league, the locals (managers, page, hasMore) of its fetchAllManagers call
    parDone,      \* per league, the call has returned (its promise is fulfilled)
    parPc,        \* "fetch" while Promise.all is pending, "written" once the upsert was issued
    parWritten,   \* the records handed to the upsert
    parOrder      \* history: the leagues whose page responses arrived, in arrival order

VARIABLES
    \* ---- two overlapping trigger invocations writing one store (SpecCon) ----
    conKind,      \* per invocation, its handler: "scheduled" | "manual" | "cron"
    conRecs,      \* per invocation, the records it prepared from what it fetched
    conIdx,       \* per invocation, the next record to upsert (sync-fpl-data.js: the loop position)
    conPc,        \* per invocation: "write" | "done"
    conStore,     \* manager_data
    conLast,      \* history: per stored key, the record of the latest upsert applied to its row
    conLog        \* history: the invocations whose upserts the store applied, in completion order

pagVars == <<pgVariant, pgPc, managers, page, hasMore, stack, retval, served>>
gwVars == <<gwBootstrap, gwPc, gwResult>>
rcVars == <<rcClassic, rcLms, rcH2h, rcTrigger, rcOut>>
envVars == <<envStore, envSecret>>
storeVars == <<manager_data, season_snapshot, lastWrite, overwrote>>
leagueVars == <<classicManagers, lmsManagers, h2hManagers>>
runVars == <<handler, pc, req, currentGW, leagueVars, managerData, idx, diagStep, response,
             runs, nFetch, nWrite, failed>>
sysVars == <<envVars, storeVars, runVars>>

parVars == <<parTrigger, parGW, parScripts, parTask, parDone, parPc, parWritten, parOrder>>

conVars == <<conKind, conRecs, conIdx, conPc, conStore, conLast, conLog>>

vars == <<pagVars, gwVars, rcVars, sysVars, parVars, conVars>>

\* what the actions of one part leave alone
notPag == <<gwVars, rcVars, sysVars, parVars, conVars>>
notGw == <<pagVars, rcVars, sysVars, parVars, conVars>>
notRc == <<pagVars, gwVars, sysVars, parVars, conVars>>
notSys == <<pagVars, gwVars, rcVars, parVars, conVars>>
notPar == <<pagVars, gwVars, rcVars, sysVars, conVars>>
notCon == <<pagVars, gwVars, rcVars, sysVars, parVars>>

-----------------------------------------------------------------------------
(* Bounds *)

MaxPage == 3        \* page requests per pagination explored
MaxPageLen == 2     \* records per upstream page
MaxEvents == 2      \* period descriptors in a bootstrap body
MaxLen == 2         \* length of a league's manager list handed to the reconcile step
MaxRuns == 2        \* handler invocations explored, one after the other

-----------------------------------------------------------------------------
(* JavaScript values *)

\* JS null and undefined, kept apart from every number the upstream sends (>= 0)
Null == -1
Undefined == -2

\* a || b
JsOr(a, b) == IF a \in {0, Null, Undefined} THEN b ELSE a

SeqUpTo(S, n) == UNION {[1..k -> S] : k \in 0..n}

Last(s) == s[Len(s)]

-----------------------------------------------------------------------------
(* Upstream standings records and page responses *)

\* one element of standings.results
StandingsEntry(id, rank, total, event_total) ==
    [entry |-> id, rank |-> rank, total |-> total, event_total |-> event_total]

\* the records the pagination is explored with
PagEntries == {StandingsEntry(1, 1, 50, 5), StandingsEntry(2, 2, 40, 4)}

\* fetchFPL threw: network error, !response.ok, or a body that is not JSON
FailResp ==
    [ok |-> FALSE, standings |-> FALSE, hasResults |-> FALSE, results |-> <<>>, has_next |-> FALSE]

\* a JSON body without `standings`
NoStandings ==
    [ok |-> TRUE, standings |-> FALSE, hasResults |-> FALSE, results |-> <<>>, has_next |-> FALSE]

\* a JSON body whose standings has no `results`
NoResults(hn) ==
    [ok |-> TRUE, standings |-> TRUE, hasResults |-> FALSE, results |-> <<>>, has_next |-> hn]

\* a JSON body {standings: {results: l, has_next: hn}}; l may be empty
PageResp(l, hn) ==
    [ok |-> TRUE, standings |-> TRUE, hasResults |-> TRUE, results |-> l, has_next |-> hn]

Responses(lists) ==
    {FailResp, NoStandings}
        \cup {NoResults(hn) : hn \in BOOLEAN}
        \cup {PageResp(l, hn) : l \in lists, hn \in BOOLEAN}

PagResponses == Responses(SeqUpTo(PagEntries, MaxPageLen))

-----------------------------------------------------------------------------
(* fetchAllManagers: the iterative paginator of part_000 / part_001 *)

\* the mutant: the catch block throws the accumulated records away
IterStepDropsOnError(s, r) ==
    IF ~r.ok
    THEN [s EXCEPT !.managers = <<>>, !.hasMore = FALSE]
    ELSE IF r.standings /\ r.hasResults
         THEN [managers |-> s.managers \o r.results, hasMore |-> r.has_next, page |-> s.page + 1]
         ELSE [s EXCEPT !.hasMore = FALSE]

\* one iteration of `while (hasMore)`, the request for page s.page being answered by r
IterStep(s, r) ==
    IF ~r.ok
    THEN [s EXCEPT !.hasMore = FALSE]                      \* catch
    ELSE IF r.standings /\ r.hasResults                    \* data.standings?.results ([] is truthy)
         THEN [managers |-> s.managers \o r.results,       \* managers.push(...results)
               hasMore  |-> r.has_next,
               page     |-> s.page + 1]
         ELSE [s EXCEPT !.hasMore = FALSE]

IterInit == [managers |-> <<>>, hasMore |-> TRUE, page |-> 1]

-----------------------------------------------------------------------------
(* getAllManagersFromLeague: the recursive paginator of sync-fpl-data.js *)

\* the call's `managers` after the response r: nothing on a throw, the results when present
RecOwn(r) == IF r.ok /\ r.standings /\ r.hasResults THEN r.results ELSE <<>>

\* response.standings?.has_next
RecCallsNext(r) == r.ok /\ r.standings /\ r.has_next

\* managers.push(...nextPageManagers)
RecJoin(own, nextPageManagers) == own \o nextPageManagers

-----------------------------------------------------------------------------
(* SpecPag: one pagination, page by page *)

PagInit ==
    /\ pgVariant \in {"fetchAllManagers", "getAllManagersFromLeague"}
    /\ pgPc = "run"
    /\ managers = IterInit.managers
    /\ page = IterInit.page
    /\ hasMore = IterInit.hasMore
    /\ stack = IF pgVariant = "getAllManagersFromLeague" THEN << <<>> >> ELSE <<>>
    /\ retval = <<>>
    /\ served = <<>>

PagIdle ==
    /\ pgVariant = "fetchAllManagers"
    /\ pgPc = "done"
    /\ managers = <<>>
    /\ page = 1
    /\ hasMore = FALSE
    /\ stack = <<>>
    /\ retval = <<>>
    /\ served = <<>>

\* fetchAllManagers: one loop iteration
IterFetch ==
    /\ pgVariant = "fetchAllManagers"
    /\ pgPc = "run"
    /\ hasMore
    /\ page <= MaxPage
    /\ \E r \in PagResponses :
        LET s == IterStep([managers |-> managers, hasMore |-> hasMore, page |-> page], r) IN
        /\ managers' = s.managers
        /\ hasMore' = s.hasMore
        /\ page' = s.page
        /\ served' = Append(served, r)
    /\ UNCHANGED <<pgVariant, pgPc, stack, retval, notPag>>

\* fetchAllManagers: the loop has ended, return managers
IterReturn ==
    /\ pgVariant = "fetchAllManagers"
    /\ pgPc = "run"
    /\ ~hasMore
    /\ pgPc' = "done"
    /\ retval' = managers
    /\ UNCHANGED <<pgVariant, managers, page, hasMore, stack, served, notPag>>

\* getAllManagersFromLeague: the innermost call (for page Len(stack)) gets its response
RecFetch ==
    /\ pgVariant = "getAllManagersFromLeague"
    /\ pgPc = "run"
    /\ Len(stack) <= MaxPage
    /\ \E r \in PagResponses :
        /\ served' = Append(served, r)
        /\ IF RecCallsNext(r)
           THEN /\ stack' = Append([stack EXCEPT ![Len(stack)] = RecOwn(r)], <<>>)
                /\ UNCHANGED <<pgPc, retval>>
           ELSE /\ stack' = SubSeq(stack, 1, Len(stack) - 1)
                /\ retval' = RecOwn(r)
                /\ pgPc' = IF Len(stack) = 1 THEN "done" ELSE "ret"
    /\ UNCHANGED <<pgVariant, managers, page, hasMore, notPag>>

\* getAllManagersFromLeague: a call returns into its caller, which appends and returns in turn
RecReturn ==
    /\ pgVariant = "getAllManagersFromLeague"
    /\ pgPc = "ret"
    /\ retval' = RecJoin(stack[Len(stack)], retval)
    /\ stack' = SubSeq(stack, 1, Len(stack) - 1)
    /\ pgPc' = IF Len(stack) = 1 THEN "done" ELSE "ret"
    /\ UNCHANGED <<pgVariant, managers, page, hasMore, served, notPag>>

PagNext == IterFetch \/ IterReturn \/ RecFetch \/ RecReturn


-----------------------------------------------------------------------------
(* Claims on the paginators, under SpecPag *)

RECURSIVE ConcatResults(_, _)
\* the result lists of the first k answers of history h, concatenated in page order
ConcatResults(h, k) == IF k = 0 THEN <<>> ELSE ConcatResults(h, k - 1) \o h[k].results

\* C1: the request for page p+1 is issued only if the answer for page p declared
\* has_next true and carried a non-empty results list (so empty pages stop the paginator).
C1_NextPageOnlyAfterNonEmptyPage ==
    \A p \in 1..(Len(served) - 1) :
        /\ served[p].ok /\ served[p].standings /\ served[p].has_next
        /\ served[p].hasResults /\ served[p].results # <<>>

\* C2: when pages 1..k were answered (each with has_next true) and the request for page
\* k+1 failed, the paginator returns the concatenation of the result lists of pages 1..k,
\* in page order and within-page order.
C2_PartialResultsKept ==
    ( /\ pgPc = "done"
      /\ served # <<>>
      /\ ~Last(served).ok
      /\ \A p \in 1..(Len(served) - 1) : served[p].ok /\ served[p].standings /\ served[p].has_next )
    => retval = ConcatResults(served, Len(served) - 1)

\* two different non-empty pages, then a failure on page 3, in the recursive paginator
C2_Witness ==
    /\ pgVariant = "getAllManagersFromLeague"
    /\ pgPc = "done"
    /\ Len(served) = 3
    /\ ~served[3].ok
    /\ Len(served[1].results) = 2
    /\ served[2].results # <<>>
    /\ served[1].results[1] # served[1].results[2]
    /\ Len(retval) >= 3

-----------------------------------------------------------------------------
(* getCurrentGW (identical in part_000, part_001 and sync-fpl-data.js) *)

\* the constant of `|| 11` and of the catch block
FallbackGW == 11

\* identifiers a period descriptor may carry
GwIds == {0, 10, 11, 12}

PeriodDescriptors == [id : GwIds, is_current : BOOLEAN]

\* fetchFPL('/bootstrap-static/') threw
BootstrapFail == [ok |-> FALSE, hasEvents |-> FALSE, events |-> <<>>]

\* a JSON body without `events`
BootstrapNoEvents == [ok |-> TRUE, hasEvents |-> FALSE, events |-> <<>>]

BootstrapBody(evs) == [ok |-> TRUE, hasEvents |-> TRUE, events |-> evs]

Bootstraps(eventLists) ==
    {BootstrapFail, BootstrapNoEvents} \cup {BootstrapBody(evs) : evs \in eventLists}

IsCurrent(e) == e.is_current

\* events.find(e => e.is_current): the first flagged element, as a set of at most one index
FindCurrent(seq) ==
    {i \in 1..Len(seq) : IsCurrent(seq[i]) /\ \A j \in 1..(i - 1) : ~IsCurrent(seq[j])}

\* bootstrap.events.find(e => e.is_current)?.id || 11, inside try/catch returning 11
getCurrentGW(b) ==
    IF ~b.ok \/ ~b.hasEvents
    THEN FallbackGW                                     \* fetchFPL threw, or events.find threw
    ELSE LET hit == FindCurrent(b.events) IN
         JsOr(IF hit = {} THEN Undefined ELSE b.events[CHOOSE i \in hit : TRUE].id, FallbackGW)

GwIdle ==
    /\ gwBootstrap = BootstrapFail
    /\ gwPc = "done"
    /\ gwResult = FallbackGW

GwInit ==
    /\ gwBootstrap \in Bootstraps(SeqUpTo(PeriodDescriptors, MaxEvents))
    /\ gwPc = "call"
    /\ gwResult = Null

CallGetCurrentGW ==
    /\ gwPc = "call"
    /\ gwResult' = getCurrentGW(gwBootstrap)
    /\ gwPc' = "done"
    /\ UNCHANGED <<gwBootstrap, notGw>>

GwNext == CallGetCurrentGW

\* C8: getCurrentGW returns the identifier of the descriptor flagged current when the fetch
\* succeeded and such a descriptor exists, whatever the identifier, and 11 otherwise.
C8_CurrentIdOrFallback ==
    gwPc = "done" =>
        gwResult =
            IF gwBootstrap.ok /\ gwBootstrap.hasEvents
               /\ \E i \in 1..Len(gwBootstrap.events) : gwBootstrap.events[i].is_current
            THEN gwBootstrap.events[
                    CHOOSE i \in 1..Len(gwBootstrap.events) :
                        /\ gwBootstrap.events[i].is_current
                        /\ \A j \in 1..(i - 1) : ~gwBootstrap.events[j].is_current].id
            ELSE 11

-----------------------------------------------------------------------------
(* The reconcile step: the managerData map of the handlers *)

\* lm => lm.entry === m.entry, for the primary entry with identifier id
FindRank(list, id) ==
    LET hit == {i \in 1..Len(list) : list[i].entry = id /\ \A j \in 1..(i - 1) : list[j].entry # id}
    IN  IF hit = {} THEN Undefined ELSE list[CHOOSE i \in hit : TRUE].rank    \* find(...)?.rank

\* the mutant: an inner join, primary entries without an LMS entry are dropped
managerDataManualInnerJoin(classic, lms, h2h, period) ==
    LET kept == SelectSeq(classic, LAMBDA m : FindRank(lms, m.entry) # Undefined) IN
    [i \in 1..Len(kept) |->
        [manager_id        |-> kept[i].entry,
         gw                |-> period,
         classic_rank      |-> kept[i].rank,
         classic_total     |-> kept[i].total,
         classic_gw_points |-> JsOr(kept[i].event_total, 0),
         lms_rank          |-> JsOr(FindRank(lms, kept[i].entry), Null),
         h2h_rank          |-> JsOr(FindRank(h2h, kept[i].entry), Null)]]

\* part_001: classicManagers.map(m => ({...}))
managerDataManual(classic, lms, h2h, period) ==
    [i \in 1..Len(classic) |->
        LET m == classic[i] IN
        [manager_id        |-> m.entry,
         gw                |-> period,
         classic_rank      |-> m.rank,
         classic_total     |-> m.total,
         classic_gw_points |-> JsOr(m.event_total, 0),
         lms_rank          |-> JsOr(FindRank(lms, m.entry), Null),
         h2h_rank          |-> JsOr(FindRank(h2h, m.entry), Null)]]

\* part_000: classicManagers.map(m => ({...})); lmsManagers and h2hManagers are not read
managerDataScheduled(classic, period) ==
    [i \in 1..Len(classic) |->
        LET m == classic[i] IN
        [manager_id   |-> m.entry,
         gw           |-> period,
         gw_points    |-> JsOr(m.event_total, 0),
         total_points |-> JsOr(m.total, 0),
         overall_rank |-> JsOr(m.rank, 0)]]

\* the lists the reconcile step is explored with
RcClassicEntries ==
    {StandingsEntry(1, 1, 50, 5), StandingsEntry(2, 2, 40, Undefined), StandingsEntry(2, 1, 0, 0)}

RcSecondaryEntries ==
    {StandingsEntry(1, 0, 0, 0), StandingsEntry(2, 1, 9, 1),
     StandingsEntry(2, 2, 8, 1), StandingsEntry(3, 1, 7, 1)}

RcIdle ==
    /\ rcClassic = <<>>
    /\ rcLms = <<>>
    /\ rcH2h = <<>>
    /\ rcTrigger = "none"
    /\ rcOut = <<>>

RcInit ==
    /\ rcClassic \in SeqUpTo(RcClassicEntries, MaxLen)
    /\ rcLms \in SeqUpTo(RcSecondaryEntries, MaxLen)
    /\ rcH2h \in SeqUpTo(RcSecondaryEntries, MaxLen)
    /\ rcTrigger = "none"
    /\ rcOut = <<>>

ReconcileScheduled ==
    /\ rcTrigger = "none"
    /\ rcTrigger' = "scheduled"
    /\ rcOut' = managerDataScheduled(rcClassic, FallbackGW)
    /\ UNCHANGED <<rcClassic, rcLms, rcH2h, notRc>>

ReconcileManual ==
    /\ rcTrigger = "none"
    /\ rcTrigger' = "manual"
    /\ rcOut' = managerDataManual(rcClassic, rcLms, rcH2h, FallbackGW)
    /\ UNCHANGED <<rcClassic, rcLms, rcH2h, notRc>>

RcNext == ReconcileScheduled \/ ReconcileManual

EntryIds(list) == {list[i].entry : i \in 1..Len(list)}

\* C3: the reconcile step yields exactly one record per primary entry, the i-th carrying
\* the i-th primary entry's manager identifier; an identifier that occurs only in a
\* secondary list never occurs in the output.
C3_OneRecordPerPrimaryEntry ==
    rcTrigger # "none" =>
        /\ Len(rcOut) = Len(rcClassic)
        /\ \A i \in 1..Len(rcOut) : rcOut[i].manager_id = rcClassic[i].entry
        /\ \A id \in (EntryIds(rcLms) \cup EntryIds(rcH2h)) \ EntryIds(rcClassic) :
               \A i \in 1..Len(rcOut) : rcOut[i].manager_id # id

\* the manual map ran on two primary entries, one of them absent from the LMS list, and a
\* secondary list names a manager the primary list does not
C3_Witness ==
    /\ rcTrigger = "manual"
    /\ Len(rcClassic) = 2
    /\ rcClassic[1].entry # rcClassic[2].entry
    /\ rcClassic[1].entry \notin EntryIds(rcLms)
    /\ 3 \in EntryIds(rcLms)
    /\ Len(rcOut) = 2

\* the rank the claim expects from a secondary list for the manager id
ExpectedSecondaryRank(list, id) ==
    IF id \in EntryIds(list)
    THEN list[CHOOSE i \in 1..Len(list) :
                 list[i].entry = id /\ \A j \in 1..(i - 1) : list[j].entry # id].rank
    ELSE Null

\* C4: in every trigger that runs the pipeline, each output record carries for each
\* secondary league the rank of that league's entry with the same manager identifier
\* (whatever that rank), and null when the league has no such entry.
C4_SecondaryRanksAttached ==
    rcTrigger # "none" =>
        \A i \in 1..Len(rcOut) :
            /\ "lms_rank" \in DOMAIN rcOut[i]
            /\ "h2h_rank" \in DOMAIN rcOut[i]
            /\ rcOut[i].lms_rank = ExpectedSecondaryRank(rcLms, rcOut[i].manager_id)
            /\ rcOut[i].h2h_rank = ExpectedSecondaryRank(rcH2h, rcOut[i].manager_id)

-----------------------------------------------------------------------------
(* The paginators run to completion against an upstream script: the answers   *)
(* to pages 1, 2, ... in order; past the script's end the upstream fails.     *)

RespAt(script, p) == IF p <= Len(script) THEN script[p] ELSE FailResp

RECURSIVE IterRun(_, _)
\* while (hasMore) { ... }
IterRun(s, script) ==
    IF ~s.hasMore THEN s ELSE IterRun(IterStep(s, RespAt(script, s.page)), script)

RECURSIVE IterRequests(_, _)
\* how many page requests the loop issues
IterRequests(s, script) ==
    IF ~s.hasMore THEN 0 ELSE 1 + IterRequests(IterStep(s, RespAt(script, s.page)), script)

\* part_000 / part_001: fetchAllManagers(leagueId, leagueName)
fetchAllManagers(script) == IterRun(IterInit, script).managers

RECURSIVE getAllManagersFromLeague(_, _)
\* sync-fpl-data.js: getAllManagersFromLeague(leagueId, pageStandings)
getAllManagersFromLeague(script, pageStandings) ==
    LET r == RespAt(script, pageStandings) IN
    IF RecCallsNext(r)
    THEN RecJoin(RecOwn(r), getAllManagersFromLeague(script, pageStandings + 1))
    ELSE RecOwn(r)

RECURSIVE RecRequests(_, _)
\* how many page requests the recursion issues
RecRequests(script, pageStandings) ==
    IF RecCallsNext(RespAt(script, pageStandings))
    THEN 1 + RecRequests(script, pageStandings + 1)
    ELSE 1

-----------------------------------------------------------------------------
(* The store: tables manager_data and season_snapshot behind supabase.upsert *)

\* the numeric columns of manager_data that some handler writes
Columns ==
    {"manager_id", "gw", "gw_points", "total_points", "overall_rank",
     "classic_rank", "classic_total", "classic_gw_points", "lms_rank", "h2h_rank",
     "entry_id", "captain_id", "value", "bank", "transfers_made"}

NullRow == [c \in Columns |-> Null]

\* the row a record leaves: the columns it supplies, the others as they were
RowOf(rec, old) == [c \in Columns |-> IF c \in DOMAIN rec THEN rec[c] ELSE old[c]]

\* the stored rows that conflict with rec on the conflict key
Conflicting(table, rec, key) == {row \in table : \A c \in key : row[c] = rec[c]}

\* the mutant: a plain insert, the conflict key is ignored
UpsertOneAlwaysInserts(table, rec, key) == table \cup {RowOf(rec, NullRow)}

\* the mutant: upsert with ignoreDuplicates, a conflicting row is left as it is
UpsertOneIgnoresDuplicates(table, rec, key) ==
    IF Conflicting(table, rec, key) = {} THEN table \cup {RowOf(rec, NullRow)} ELSE table

\* upsert(rec, { onConflict: key }): overwrite the conflicting row, else insert
UpsertOne(table, rec, key) ==
    LET hits == Conflicting(table, rec, key) IN
    IF hits = {}
    THEN table \cup {RowOf(rec, NullRow)}
    ELSE (table \ hits) \cup {RowOf(rec, row) : row \in hits}

RECURSIVE UpsertFrom(_, _, _, _)
UpsertFrom(table, recs, key, i) ==
    IF i > Len(recs) THEN table ELSE UpsertFrom(UpsertOne(table, recs[i], key), recs, key, i + 1)

\* upsert(recs, { onConflict: key }) for an array of records
UpsertAll(table, recs, key) == UpsertFrom(table, recs, key, 1)

\* the string 'Unknown' the probe may put in the gw column
Unknown == -3

\* writes the store cannot apply: a key column that is no number, two records of one
\* batch with the same key, or a key that does not single out one stored row
Rejects(table, recs, key) ==
    \/ \E i \in 1..Len(recs) : \E c \in key : recs[i][c] < 0
    \/ \E i, j \in 1..Len(recs) : i < j /\ \A c \in key : recs[i][c] = recs[j][c]
    \/ \E i \in 1..Len(recs) : Cardinality(Conflicting(table, recs[i], key)) > 1

\* what an awaited store call can come to: data, {error}, or a rejected promise
StoreOutcomes(table, recs, key) ==
    IF Rejects(table, recs, key) THEN {"error"} ELSE {"ok", "error", "throws"}

\* a write replaces a stored row that held other values
Overwrites(table, recs, key) ==
    \E i \in 1..Len(recs) : \E row \in Conflicting(table, recs[i], key) :
        \E c \in DOMAIN recs[i] : row[c] # recs[i][c]

ScheduledKey == {"manager_id", "gw"}
CronKey == {"manager_id"}

\* season_snapshot.upsert({ id: 1, current_gw }, { onConflict: 'id' })
MarkerId == 1
UpsertMarker(table, gw) ==
    {row \in table : row.id # MarkerId} \cup {[id |-> MarkerId, current_gw |-> gw]}

-----------------------------------------------------------------------------
(* Requests and the secret checks *)

\* a header that was not sent, an environment variable that is not set (JS undefined)
Absent == ""

Tokens == {"s3cret", "wrong", "undefined"}

\* headers['x-vercel-cron-secret'], and headers.authorization as "Bearer <token>" or "<token>";
\* req.method and req.query.endpoint, which only proxy.js reads
Request(x, bearer, token) ==
    [xCronSecret |-> x, authBearer |-> bearer, authToken |-> token,
     method |-> "GET", endpoint |-> Absent]

\* a request to proxy.js
ProxyRequest(m, e) == [Request(Absent, FALSE, Absent) EXCEPT !.method = m, !.endpoint = e]

ProxyRequests == {ProxyRequest(m, e) : m \in {"GET", "OPTIONS"}, e \in {Absent, "/bootstrap-static/"}}

AllRequests ==
    {Request(x, b, t) : x \in Tokens \cup {Absent}, b \in BOOLEAN, t \in Tokens \cup {Absent}}
        \ {Request(x, TRUE, Absent) : x \in Tokens \cup {Absent}}

\* part_000: headers['x-vercel-cron-secret'] || headers['authorization']?.replace('Bearer ', '')
\* compared with process.env.CRON_SECRET
AuthorizedScheduled(r, secret) ==
    (IF r.xCronSecret # Absent THEN r.xCronSecret ELSE r.authToken) = secret

\* sync-fpl-data.js: headers.authorization === `Bearer ${process.env.CRON_SECRET}`
AuthorizedCron(r, secret) ==
    r.authBearer /\ r.authToken = (IF secret = Absent THEN "undefined" ELSE secret)

Authorized(h, r, secret) ==
    CASE h = "scheduled" -> AuthorizedScheduled(r, secret)
      [] h = "cron"      -> AuthorizedCron(r, secret)
      [] OTHER           -> TRUE         \* part_001 and part_002 check nothing

-----------------------------------------------------------------------------
(* Responses *)

NoResponse ==
    [status |-> 0, json |-> FALSE, success |-> "absent", error |-> FALSE,
     processed |-> Null, gw |-> Null, step |-> "", verify |-> ""]

\* res.status(401).json({ error: 'Unauthorized' })
Unauthorized == [NoResponse EXCEPT !.status = 401, !.json = TRUE, !.error = TRUE]

\* res.status(st).json({ success: true, gw, managersProcessed | managers })
SuccessBody(st, gw, n) ==
    [NoResponse EXCEPT !.status = st, !.json = TRUE, !.success = "true", !.gw = gw, !.processed = n]

\* res.status(st).json({ success: false, error | message })
FailureBody(st) ==
    [NoResponse EXCEPT !.status = st, !.json = TRUE, !.success = "false", !.error = TRUE]

\* the module threw while loading: the platform answers, the handler never runs
LoadCrash == [NoResponse EXCEPT !.status = 500]

\* proxy.js: res.status(200).end(), a response without a body
PreflightEnd == [NoResponse EXCEPT !.status = 200]

\* proxy.js: res.status(400).json({ error: 'Missing endpoint parameter' })
MissingEndpoint == [NoResponse EXCEPT !.status = 400, !.json = TRUE, !.error = TRUE]

\* proxy.js: res.status(200).json(data), the upstream's body passed through
ProxiedBody == [NoResponse EXCEPT !.status = 200, !.json = TRUE]

\* proxy.js: res.status(500).json({ error: 'Failed to fetch FPL data', message })
ProxyFailure == [NoResponse EXCEPT !.status = 500, !.json = TRUE, !.error = TRUE]

-----------------------------------------------------------------------------
(* The upstream and store behaviours the handlers are explored with *)

SpA == StandingsEntry(1, 1, 50, 5)
SpA2 == StandingsEntry(1, 2, 40, Undefined)     \* manager 1 again, with other points
SpB == StandingsEntry(2, 2, 40, 4)
SpS == StandingsEntry(2, 1, 9, 1)               \* manager 2 in a secondary league

SpClassicScripts ==
    { <<>>,                                                       \* page 1 fails
      <<PageResp(<<>>, FALSE)>>,                                  \* a league without managers
      <<PageResp(<<SpA>>, FALSE)>>,
      <<PageResp(<<SpA2>>, FALSE)>>,
      <<PageResp(<<SpA>>, TRUE)>>,                                \* page 2 fails
      <<PageResp(<<SpA>>, TRUE), PageResp(<<SpB>>, FALSE)>>,
      <<PageResp(<<SpA>>, TRUE), PageResp(<<SpA2>>, FALSE)>> }    \* one manager on two pages

SpSecondaryScripts == { <<>>, <<PageResp(<<SpS>>, FALSE)>> }

SpBootstraps ==
    { BootstrapFail, BootstrapNoEvents,
      BootstrapBody(<<[id |-> 12, is_current |-> TRUE]>>),
      BootstrapBody(<<[id |-> 10, is_current |-> TRUE]>>),
      BootstrapBody(<<[id |-> 12, is_current |-> FALSE]>>) }

\* getManagerDetails: null when the fetch threw, else the /entry/{id}/ body
DetailsFail == [ok |-> FALSE, value |-> Undefined, bank |-> Undefined, transfers_made |-> Undefined]
SpDetails == {DetailsFail, [ok |-> TRUE, value |-> 1000, bank |-> 5, transfers_made |-> Undefined]}

\* getManagerGWPicks: null when the fetch threw, else the captain's element (if one is flagged)
PicksFail == [ok |-> FALSE, captain |-> Undefined]
SpPicks == {PicksFail, [ok |-> TRUE, captain |-> 7]}

SpRequests == {Request(Absent, TRUE, "s3cret"), Request(Absent, TRUE, "wrong")}

Handlers == {"scheduled", "manual", "cron", "probe"}

-----------------------------------------------------------------------------
(* The handlers *)

\* sync-fpl-data.js: the record of one manager handed to upsert
cronRecord(manager, details, picks) ==
    [manager_id     |-> manager.entry,
     entry_id       |-> manager.entry,
     total_points   |-> manager.total,
     overall_rank   |-> manager.rank,
     gw_points      |-> JsOr(manager.event_total, 0),
     captain_id     |-> JsOr(IF picks.ok THEN picks.captain ELSE Undefined, Null),
     value          |-> JsOr(details.value, 0),
     bank           |-> JsOr(details.bank, 0),
     transfers_made |-> JsOr(details.transfers_made, 0)]

\* part_002: testData
TestManagerId == 999999
testData(period) ==
    [manager_id |-> TestManagerId, gw |-> period, gw_points |-> 0, total_points |-> 0,
     overall_rank |-> TestManagerId]

SysInit ==
    /\ envStore \in BOOLEAN
    /\ envSecret = "s3cret"
    /\ manager_data = {}
    /\ season_snapshot = {}
    /\ handler = "none"
    /\ pc = "idle"
    /\ req = Request(Absent, FALSE, Absent)
    /\ currentGW = Null
    /\ classicManagers = <<>>
    /\ lmsManagers = <<>>
    /\ h2hManagers = <<>>
    /\ managerData = <<>>
    /\ idx = 0
    /\ diagStep = "init"
    /\ response = NoResponse
    /\ runs = 0
    /\ nFetch = 0
    /\ nWrite = 0
    /\ failed = FALSE
    /\ lastWrite = <<>>
    /\ overwrote = FALSE

SysIdle == SysInit /\ envStore

\* the platform calls handler(req, res)
Invoke(h, r, limit) ==
    /\ pc = "idle"
    /\ runs < limit
    /\ handler' = h
    /\ req' = r
    /\ pc' = "entry"
    /\ runs' = runs + 1
    /\ currentGW' = Null
    /\ classicManagers' = <<>>
    /\ lmsManagers' = <<>>
    /\ h2hManagers' = <<>>
    /\ managerData' = <<>>
    /\ idx' = 0
    /\ diagStep' = "init"
    /\ response' = NoResponse
    /\ nFetch' = 0
    /\ nWrite' = 0
    /\ failed' = FALSE
    /\ UNCHANGED <<envVars, storeVars, notSys>>

\* the invocation ends with the response rsp
Respond(rsp) ==
    /\ response' = rsp
    /\ pc' = "idle"

\* sync-fpl-data.js, lines 5-8: createClient(undefined, undefined) throws at module load
ModuleLoadFails ==
    /\ pc = "entry"
    /\ handler = "cron"
    /\ ~envStore
    /\ Respond(LoadCrash)
    /\ failed' = TRUE
    /\ UNCHANGED <<envVars, storeVars, notSys, handler, req, currentGW, leagueVars, managerData,
                   idx, diagStep, runs, nFetch, nWrite>>

ModuleLoaded == handler = "cron" => envStore

\* the secret check fails: 401
AuthReject ==
    /\ pc = "entry"
    /\ ModuleLoaded
    /\ ~Authorized(handler, req, envSecret)
    /\ Respond(Unauthorized)
    /\ UNCHANGED <<envVars, storeVars, notSys, handler, req, currentGW, leagueVars, managerData,
                   idx, diagStep, runs, nFetch, nWrite, failed>>

\* the secret check passes, or the handler has none
AuthPass ==
    /\ pc = "entry"
    /\ ModuleLoaded
    /\ Authorized(handler, req, envSecret)
    /\ pc' = CASE handler \in {"scheduled", "manual"} -> "client"
               [] handler = "cron" -> "gw"
               [] handler = "probe" -> "env_check"
               [] handler = "proxy" -> "proxy"
    /\ UNCHANGED <<envVars, storeVars, notSys, handler, req, currentGW, leagueVars, managerData,
                   idx, diagStep, response, runs, nFetch, nWrite, failed>>

\* part_000 / part_001: if (!supabase) throw ...; the catch answers 500
ClientMissing ==
    /\ pc = "client"
    /\ ~envStore
    /\ failed' = TRUE
    /\ Respond(FailureBody(500))
    /\ UNCHANGED <<envVars, storeVars, notSys, handler, req, currentGW, leagueVars, managerData,
                   idx, diagStep, runs, nFetch, nWrite>>

ClientReady ==
    /\ pc = "client"
    /\ envStore
    /\ pc' = "gw"
    /\ UNCHANGED <<envVars, storeVars, notSys, handler, req, currentGW, leagueVars, managerData,
                   idx, diagStep, response, runs, nFetch, nWrite, failed>>

\* const currentGW = await getCurrentGW()
ResolveGW ==
    /\ pc = "gw"
    /\ \E b \in SpBootstraps : currentGW' = getCurrentGW(b)
    /\ nFetch' = nFetch + 1
    /\ pc' = "leagues"
    /\ UNCHANGED <<envVars, storeVars, notSys, handler, req, leagueVars, managerData,
                   idx, diagStep, response, runs, nWrite, failed>>

\* part_000 / part_001: await Promise.all([fetchAllManagers(classic), (lms), (h2h)])
FetchLeagues ==
    /\ pc = "leagues"
    /\ handler \in {"scheduled", "manual"}
    /\ \E cs \in SpClassicScripts, ls \in SpSecondaryScripts, hs \in SpSecondaryScripts :
        /\ classicManagers' = fetchAllManagers(cs)
        /\ lmsManagers' = fetchAllManagers(ls)
        /\ h2hManagers' = fetchAllManagers(hs)
        /\ nFetch' = nFetch + IterRequests(IterInit, cs) + IterRequests(IterInit, ls)
                            + IterRequests(IterInit, hs)
    /\ pc' = "upsert"
    /\ UNCHANGED <<envVars, storeVars, notSys, handler, req, currentGW, managerData,
                   idx, diagStep, response, runs, nWrite, failed>>

\* part_000 / part_001: the map, the bulk upsert, and the 200 or (from the catch) the 500
BulkUpsert ==
    /\ pc = "upsert"
    /\ LET data == IF handler = "scheduled"
                   THEN managerDataScheduled(classicManagers, currentGW)
                   ELSE managerDataManual(classicManagers, lmsManagers, h2hManagers, currentGW)
       IN
       /\ managerData' = data
       /\ nWrite' = nWrite + 1
       /\ \E outcome \in StoreOutcomes(manager_data, data, ScheduledKey) :
            IF outcome = "ok"
            THEN /\ manager_data' = UpsertAll(manager_data, data, ScheduledKey)
                 /\ lastWrite' = data
                 /\ overwrote' = Overwrites(manager_data, data, ScheduledKey)
                 /\ Respond(SuccessBody(200, currentGW, Len(data)))
                 /\ UNCHANGED failed
            ELSE /\ failed' = TRUE
                 /\ Respond(FailureBody(500))
                 /\ UNCHANGED <<manager_data, lastWrite, overwrote>>
    /\ UNCHANGED <<envVars, season_snapshot, notSys, handler, req, currentGW, leagueVars,
                   idx, diagStep, runs, nFetch>>

\* sync-fpl-data.js: allManagers = await getAllManagersFromLeague(classic); none: result, 200
FetchClassic ==
    /\ pc = "leagues"
    /\ handler = "cron"
    /\ \E cs \in SpClassicScripts :
        LET all == getAllManagersFromLeague(cs, 1) IN
        /\ classicManagers' = all
        /\ nFetch' = nFetch + RecRequests(cs, 1)
        /\ IF Len(all) = 0
           THEN /\ Respond(FailureBody(200))
                /\ UNCHANGED idx
           ELSE /\ pc' = "loop"
                /\ idx' = 1
                /\ UNCHANGED response
    /\ UNCHANGED <<envVars, storeVars, notSys, handler, req, currentGW, lmsManagers, h2hManagers,
                   managerData, diagStep, runs, nWrite, failed>>

\* sync-fpl-data.js: one iteration of `for (const manager of allManagers)`
SyncManager ==
    /\ pc = "loop"
    /\ idx <= Len(classicManagers)
    /\ idx' = idx + 1
    /\ \E details \in SpDetails, picks \in SpPicks :
        LET rec == cronRecord(classicManagers[idx], details, picks) IN
        IF ~details.ok
        THEN /\ nFetch' = nFetch + 1                                   \* continue
             /\ UNCHANGED <<storeVars, nWrite, failed>>
        ELSE /\ nFetch' = nFetch + 2
             /\ nWrite' = nWrite + 1
             /\ \E outcome \in StoreOutcomes(manager_data, <<rec>>, CronKey) :
                  IF outcome = "ok"
                  THEN /\ manager_data' = UpsertAll(manager_data, <<rec>>, CronKey)
                       /\ lastWrite' = <<rec>>
                       /\ overwrote' = Overwrites(manager_data, <<rec>>, CronKey)
                       /\ UNCHANGED <<season_snapshot, failed>>
                  ELSE /\ failed' = TRUE            \* {error} is not read; a throw is logged
                       /\ UNCHANGED storeVars
    /\ UNCHANGED <<envVars, notSys, handler, pc, req, currentGW, leagueVars, managerData,
                   diagStep, response, runs>>

\* sync-fpl-data.js: the season_snapshot upsert, the result, and res.status(200).json(result)
UpdateMarker ==
    /\ pc = "loop"
    /\ idx > Len(classicManagers)
    /\ nWrite' = nWrite + 1
    /\ \E outcome \in {"ok", "error", "throws"} :
        CASE outcome = "ok" ->
                /\ season_snapshot' = UpsertMarker(season_snapshot, currentGW)
                /\ Respond(SuccessBody(200, currentGW, Len(classicManagers)))
                /\ UNCHANGED failed
          [] outcome = "error" ->                        \* {error} is not read
                /\ failed' = TRUE
                /\ Respond(SuccessBody(200, currentGW, Len(classicManagers)))
                /\ UNCHANGED season_snapshot
          [] outcome = "throws" ->                       \* the outer catch: {success: false, error}
                /\ failed' = TRUE
                /\ Respond(FailureBody(200))
                /\ UNCHANGED season_snapshot
    /\ UNCHANGED <<envVars, manager_data, lastWrite, overwrote, notSys, handler, req, currentGW,
                   leagueVars, managerData, idx, diagStep, runs, nFetch>>

\* part_002, step env_check: the credentials are missing
ProbeEnvMissing ==
    /\ pc = "env_check"
    /\ ~envStore
    /\ diagStep' = "env_check"
    /\ failed' = TRUE
    /\ Respond([FailureBody(500) EXCEPT !.step = "env_check"])
    /\ UNCHANGED <<envVars, storeVars, notSys, handler, req, currentGW, leagueVars, managerData,
                   idx, runs, nFetch, nWrite>>

\* part_002, steps env_check, supabase_init, fpl_api_test
ProbeFplApi ==
    /\ pc = "env_check"
    /\ envStore
    /\ diagStep' = "fpl_api_test"
    /\ nFetch' = nFetch + 1
    /\ \E b \in SpBootstraps :
        IF ~b.ok \/ ~b.hasEvents                     \* !fplResponse.ok, or events.find throws
        THEN /\ failed' = TRUE
             /\ Respond([FailureBody(500) EXCEPT !.step = "fpl_api_test"])
             /\ UNCHANGED currentGW
        ELSE LET hit == FindCurrent(b.events) IN
             /\ currentGW' = JsOr(IF hit = {} THEN Undefined
                                  ELSE b.events[CHOOSE i \in hit : TRUE].id, Unknown)
             /\ pc' = "league"
             /\ UNCHANGED <<failed, response>>
    /\ UNCHANGED <<envVars, storeVars, notSys, handler, req, leagueVars, managerData,
                   idx, runs, nWrite>>

\* part_002, step league_api_test
ProbeLeagueApi ==
    /\ pc = "league"
    /\ diagStep' = "league_api_test"
    /\ nFetch' = nFetch + 1
    /\ \E r \in {FailResp, PageResp(<<>>, FALSE)} :
        IF ~r.ok
        THEN /\ failed' = TRUE
             /\ Respond([FailureBody(500) EXCEPT !.step = "league_api_test"])
        ELSE /\ pc' = "insert"
             /\ UNCHANGED <<failed, response>>
    /\ UNCHANGED <<envVars, storeVars, notSys, handler, req, currentGW, leagueVars, managerData,
                   idx, runs, nWrite>>

\* part_002, step supabase_insert: the upsert of the test row
ProbeInsert ==
    /\ pc = "insert"
    /\ diagStep' = "supabase_insert"
    /\ nWrite' = nWrite + 1
    /\ LET data == <<testData(currentGW)>> IN
       \E outcome \in StoreOutcomes(manager_data, data, ScheduledKey) :
        IF outcome = "ok"
        THEN /\ manager_data' = UpsertAll(manager_data, data, ScheduledKey)
             /\ lastWrite' = data
             /\ overwrote' = Overwrites(manager_data, data, ScheduledKey)
             /\ pc' = "verify"
             /\ UNCHANGED <<failed, response>>
        ELSE /\ failed' = TRUE
             /\ Respond([FailureBody(500) EXCEPT !.step = "supabase_insert"])
             /\ UNCHANGED <<manager_data, lastWrite, overwrote>>
    /\ UNCHANGED <<envVars, season_snapshot, notSys, handler, req, currentGW, leagueVars,
                   managerData, idx, runs, nFetch>>

\* part_002, "Step 6": select('*').eq('manager_id', 999999).single(), then the 200
ProbeVerify ==
    /\ pc = "verify"
    /\ \E outcome \in {"answered", "error", "throws"} :
        IF outcome = "answered"
        THEN \* .single() yields the row when exactly one matches, else PGRST116, which is let pass
             LET found == Cardinality({row \in manager_data : row.manager_id = TestManagerId}) = 1
             IN  /\ Respond([SuccessBody(200, Null, Null) EXCEPT
                                !.step = diagStep,
                                !.verify = IF found THEN "DATA FOUND" ELSE "NO DATA"])
                 /\ UNCHANGED failed
        ELSE /\ failed' = TRUE
             /\ Respond([FailureBody(500) EXCEPT !.step = diagStep])
    /\ UNCHANGED <<envVars, storeVars, notSys, handler, req, currentGW, leagueVars, managerData,
                   idx, diagStep, runs, nFetch, nWrite>>

\* proxy.js: the preflight request is answered with an empty 200
ProxyOptions ==
    /\ pc = "proxy"
    /\ req.method = "OPTIONS"
    /\ Respond(PreflightEnd)
    /\ UNCHANGED <<envVars, storeVars, notSys, handler, req, currentGW, leagueVars, managerData,
                   idx, diagStep, runs, nFetch, nWrite, failed>>

\* proxy.js: if (!endpoint) return res.status(400).json(...)
ProxyMissingEndpoint ==
    /\ pc = "proxy"
    /\ req.method # "OPTIONS"
    /\ req.endpoint = Absent
    /\ Respond(MissingEndpoint)
    /\ UNCHANGED <<envVars, storeVars, notSys, handler, req, currentGW, leagueVars, managerData,
                   idx, diagStep, runs, nFetch, nWrite, failed>>

\* proxy.js: the fetch of the endpoint, then the 200 with the data or (from the catch) the 500
ProxyFetch ==
    /\ pc = "proxy"
    /\ req.method # "OPTIONS"
    /\ req.endpoint # Absent
    /\ nFetch' = nFetch + 1
    /\ \E ok \in BOOLEAN :                  \* response.ok and a JSON body, or a throw
        IF ok
        THEN /\ Respond(ProxiedBody)
             /\ UNCHANGED failed
        ELSE /\ failed' = TRUE
             /\ Respond(ProxyFailure)
    /\ UNCHANGED <<envVars, storeVars, notSys, handler, req, currentGW, leagueVars, managerData,
                   idx, diagStep, runs, nWrite>>

ProxySteps == ProxyOptions \/ ProxyMissingEndpoint \/ ProxyFetch

SyncSteps ==
    \/ ModuleLoadFails \/ AuthReject \/ AuthPass \/ ClientMissing \/ ClientReady
    \/ ResolveGW \/ FetchLeagues \/ BulkUpsert
    \/ FetchClassic \/ SyncManager \/ UpdateMarker

ProbeSteps == ProbeEnvMissing \/ ProbeFplApi \/ ProbeLeagueApi \/ ProbeInsert \/ ProbeVerify

\* invocations follow one another, any handler, the secret right or wrong
Next ==
    \/ \E h \in Handlers, r \in SpRequests : Invoke(h, r, MaxRuns)
    \/ \E r \in ProxyRequests : Invoke("proxy", r, MaxRuns)
    \/ SyncSteps
    \/ ProbeSteps
    \/ ProxySteps

\* one invocation of a protected trigger, any headers, the secret configured or not
AuthInit ==
    /\ envSecret \in {Absent, "s3cret"}
    /\ envStore \in BOOLEAN
    /\ manager_data = {}
    /\ season_snapshot = {}
    /\ handler = "none"
    /\ pc = "idle"
    /\ req = Request(Absent, FALSE, Absent)
    /\ currentGW = Null
    /\ classicManagers = <<>>
    /\ lmsManagers = <<>>
    /\ h2hManagers = <<>>
    /\ managerData = <<>>
    /\ idx = 0
    /\ diagStep = "init"
    /\ response = NoResponse
    /\ runs = 0
    /\ nFetch = 0
    /\ nWrite = 0
    /\ failed = FALSE
    /\ lastWrite = <<>>
    /\ overwrote = FALSE

AuthNext ==
    \/ \E h \in {"scheduled", "cron"}, r \in AllRequests : Invoke(h, r, 1)
    \/ SyncSteps

-----------------------------------------------------------------------------
(* Claims on the store and the trigger handlers *)

\* the stored rows a written record is kept in: same manager, and same period when the
\* record names one
RowsOf(rec) ==
    {row \in manager_data :
        /\ row.manager_id = rec.manager_id
        /\ "gw" \in DOMAIN rec => row.gw = rec.gw}

\* C5: the snapshot table never holds two rows for one (manager identifier, period), and
\* every record of the latest applied write is held by exactly one row, with the values of
\* that write (so a second sync for the same key overwrites the first).
C5_OneRowPerManagerAndPeriod ==
    /\ \A r1, r2 \in manager_data :
         (r1.manager_id = r2.manager_id /\ r1.gw = r2.gw) => r1 = r2
    /\ \A i \in 1..Len(lastWrite) :
         /\ Cardinality(RowsOf(lastWrite[i])) = 1
         /\ \A row \in RowsOf(lastWrite[i]) : \A c \in DOMAIN lastWrite[i] : row[c] = lastWrite[i][c]

\* a second bulk sync succeeded for a manager and period the first had stored other values for
C5_Witness ==
    /\ runs = 2
    /\ pc = "idle"
    /\ handler \in {"scheduled", "manual"}
    /\ response.success = "true"
    /\ overwrote
    /\ Len(lastWrite) = 1
    /\ Cardinality(manager_data) = 1

\* the secrets the request supplies, in either header
SuppliedSecrets == {req.xCronSecret, req.authToken} \ {Absent}

\* the request supplies a secret and none it supplies is the configured one
IncorrectSecret == SuppliedSecrets # {} /\ envSecret \notin SuppliedSecrets

\* C6: a protected trigger whose handler is invoked with an incorrect secret answers 401
\* and issues no upstream request and no store write in that invocation.
C6_WrongSecretIs401WithNoWork ==
    (handler \in {"scheduled", "cron"} /\ ModuleLoaded /\ IncorrectSecret) =>
        /\ nFetch = 0
        /\ nWrite = 0
        /\ pc = "idle" => response.status = 401

\* what does hold of the secret check: with a secret configured, a handler that runs
\* answers a wrong secret 401 before any request or write
SecretCheckPrecedesWork ==
    (handler \in {"scheduled", "cron"} /\ ModuleLoaded /\ IncorrectSecret /\ envSecret # Absent) =>
        /\ nFetch = 0
        /\ nWrite = 0
        /\ manager_data = {}
        /\ pc = "idle" => response = Unauthorized

\* C7: in a scheduled trigger, a run that passed the secret check and in which something
\* failed (store client not initialised, a store write failed, an exception) is answered
\* 500 with {success: false, error}, never 200.
C7_FailureAnswers500 ==
    ( /\ handler \in {"scheduled", "cron"}
      /\ ModuleLoaded
      /\ Authorized(handler, req, envSecret)
      /\ pc = "idle"
      /\ failed )
    => /\ response.status = 500
       /\ response.json
       /\ response.success = "false"
       /\ response.error

\* C9: the marker table never holds more than one row, and after a sync run that reports
\* success it holds exactly the row (1, the period that run resolved).
C9_MarkerHoldsResolvedPeriod ==
    /\ Cardinality(season_snapshot) <= 1
    /\ ( /\ pc = "idle"
         /\ handler \in {"scheduled", "manual", "cron"}
         /\ response.success = "true" )
       => season_snapshot = {[id |-> MarkerId, current_gw |-> currentGW]}

\* C10: with the store credentials missing, a trigger invocation (past the secret check
\* where there is one) issues no upstream request and no store write and ends in the
\* structured failure: 500, {success: false, error}.
C10_MissingCredentialsFailCleanly ==
    ( /\ ~envStore
      /\ handler \in {"scheduled", "manual", "cron"}
      /\ Authorized(handler, req, envSecret) )
    => /\ nFetch = 0
       /\ nWrite = 0
       /\ pc = "idle" => response = FailureBody(500)

-----------------------------------------------------------------------------
(* Claims on the diagnostic probe and on the responses *)

\* the probe step in progress at position p of part_002's handler
StepAt(p) ==
    CASE p = "env_check" -> IF envStore THEN "fpl_api_test" ELSE "env_check"
      [] p = "league"    -> "league_api_test"
      [] p = "insert"    -> "supabase_insert"
      [] p = "verify"    -> "verify"
      [] OTHER           -> "init"

\* C11: the probe answers 200 only when every step succeeded, the read-back finding the
\* written row included; otherwise it answers 500 and the step its report names is the
\* step that failed.
C11_ProbeReportsFailingStep ==
    [][ (handler = "probe" /\ pc # "idle" /\ pc' = "idle") =>
            IF response'.status = 200
            THEN ~failed' /\ response'.verify = "DATA FOUND"
            ELSE response'.status = 500 /\ response'.step = StepAt(pc) ]_vars

\* C12: every invocation of every handler that has ended sent a response, and that response
\* carries a JSON body (under any upstream failure, store failure or missing configuration).
C12_EveryInvocationAnswersJson ==
    (pc = "idle" /\ handler # "none") => (response.status # 0 /\ response.json)

\* the stored rows that reflect a manager of this run's primary list with this run's values
RunRows ==
    {row \in manager_data :
        \E i \in 1..Len(classicManagers) :
            /\ row.manager_id = classicManagers[i].entry
            /\ row[IF handler = "manual" THEN "classic_total" ELSE "total_points"]
                    = classicManagers[i].total
            /\ handler # "cron" => row.gw = currentGW}

\* C13: when a trigger reports success with a count of managers processed, no store write
\* of the run failed, every manager counted is reflected in the store with the run's
\* values, and the count is the number of rows the run wrote.
C13_ReportedCountIsWritten ==
    ( /\ pc = "idle"
      /\ handler \in {"scheduled", "manual", "cron"}
      /\ response.success = "true"
      /\ response.processed # Null )
    => /\ ~failed
       /\ \A i \in 1..Len(classicManagers) :
            \E row \in RunRows : row.manager_id = classicManagers[i].entry
       /\ response.processed = Cardinality(RunRows)

\* C14: a scheduled trigger runs its pipeline only for a request that supplies, in either
\* header, a secret equal to the configured one; every other request (one without any
\* secret included, the secret configured or not) is answered 401 and starts no work.
C14_PipelineOnlyWithConfiguredSecret ==
    ( /\ handler \in {"scheduled", "cron"}
      /\ ModuleLoaded
      /\ envSecret \notin SuppliedSecrets )
    => /\ pc \in {"idle", "entry"}
       /\ nFetch = 0
       /\ nWrite = 0
       /\ pc = "idle" => response = Unauthorized

-----------------------------------------------------------------------------
(* SpecPar: the three paginations of one trigger invocation, interleaved *)

Leagues == {"classic", "lms", "h2h"}

\* the mutant: the handler goes on as soon as one pagination has returned
AnySettled(done) == \E l \in Leagues : done[l]

\* await Promise.all([...]): every one of the three calls has returned
AllSettled(done) == \A l \in Leagues : done[l]

ParInit ==
    /\ parTrigger \in {"scheduled", "manual"}
    /\ parGW \in {FallbackGW, 12}
    /\ \E cs \in SpClassicScripts, ls \in SpSecondaryScripts, hs \in SpSecondaryScripts :
        parScripts = [l \in Leagues |-> CASE l = "classic" -> cs [] l = "lms" -> ls [] OTHER -> hs]
    /\ parTask = [l \in Leagues |-> IterInit]
    /\ parDone = [l \in Leagues |-> FALSE]
    /\ parPc = "fetch"
    /\ parWritten = <<>>
    /\ parOrder = <<>>

ParIdle ==
    /\ parTrigger = "scheduled"
    /\ parGW = FallbackGW
    /\ parScripts = [l \in Leagues |-> <<>>]
    /\ parTask = [l \in Leagues |-> IterInit]
    /\ parDone = [l \in Leagues |-> TRUE]
    /\ parPc = "written"
    /\ parWritten = <<>>
    /\ parOrder = <<>>

\* one loop iteration of league l's fetchAllManagers: its page request is answered
ParFetch(l) ==
    /\ parPc = "fetch"
    /\ ~parDone[l]
    /\ parTask[l].hasMore
    /\ parTask' = [parTask EXCEPT ![l] = IterStep(@, RespAt(parScripts[l], @.page))]
    /\ parOrder' = Append(parOrder, l)
    /\ UNCHANGED <<parTrigger, parGW, parScripts, parDone, parPc, parWritten, notPar>>

\* league l's fetchAllManagers returns managers
ParReturn(l) ==
    /\ parPc = "fetch"
    /\ ~parDone[l]
    /\ ~parTask[l].hasMore
    /\ parDone' = [parDone EXCEPT ![l] = TRUE]
    /\ UNCHANGED <<parTrigger, parGW, parScripts, parTask, parPc, parWritten, parOrder, notPar>>

\* Promise.all has resolved: the map over classicManagers, and the upsert of its records
ParJoinAndWrite ==
    /\ parPc = "fetch"
    /\ AllSettled(parDone)
    /\ parWritten' =
        IF parTrigger = "scheduled"
        THEN managerDataScheduled(parTask["classic"].managers, parGW)
        ELSE managerDataManual(parTask["classic"].managers, parTask["lms"].managers,
                               parTask["h2h"].managers, parGW)
    /\ parPc' = "written"
    /\ UNCHANGED <<parTrigger, parGW, parScripts, parTask, parDone, parOrder, notPar>>

ParNext ==
    \/ \E l \in Leagues : ParFetch(l)
    \/ \E l \in Leagues : ParReturn(l)
    \/ ParJoinAndWrite

\* the records the trigger writes for given upstream contents, each league paginated alone
RecordsFor(trigger, scripts, period) ==
    IF trigger = "scheduled"
    THEN managerDataScheduled(fetchAllManagers(scripts["classic"]), period)
    ELSE managerDataManual(fetchAllManagers(scripts["classic"]), fetchAllManagers(scripts["lms"]),
                           fetchAllManagers(scripts["h2h"]), period)

\* C15: the upsert is issued only after all three paginations have terminated, and the
\* records it is handed are those the upstream contents determine, whatever the order in
\* which the three leagues' page responses arrived.
C15_WriteAfterJoinAnyInterleaving ==
    (parPc = "written") =>
        /\ \A l \in Leagues : parDone[l] /\ ~parTask[l].hasMore
        /\ parWritten = RecordsFor(parTrigger, parScripts, parGW)

\* the manual trigger wrote two records, one with a secondary rank, after the classic
\* league's two page responses arrived with another league's response between them
C15_Witness ==
    /\ parPc = "written"
    /\ parTrigger = "manual"
    /\ Len(parWritten) = 2
    /\ parWritten[2].lms_rank # Null
    /\ \E i, j, k \in 1..Len(parOrder) :
        /\ i < j /\ j < k
        /\ parOrder[i] = "classic" /\ parOrder[j] = "lms" /\ parOrder[k] = "classic"

-----------------------------------------------------------------------------
(* SpecCon: two trigger invocations that overlap, their upserts interleaved *)

Slots == {1, 2}

\* the period both invocations resolved
ConPeriod == getCurrentGW(BootstrapBody(<<[id |-> 12, is_current |-> TRUE]>>))

\* the primary lists the two invocations may have fetched
ConLists == { <<SpA>>, <<SpA2, SpB>>, <<SpA, SpS>> }

\* the records an invocation of handler k prepares from the primary list it fetched
ConRecords(k, list) ==
    CASE k = "scheduled" -> managerDataScheduled(list, ConPeriod)
      [] k = "manual"    -> managerDataManual(list, <<SpS>>, <<>>, ConPeriod)
      [] k = "cron"      ->
            [i \in 1..Len(list) |->
                cronRecord(list[i], CHOOSE d \in SpDetails : d.ok, CHOOSE q \in SpPicks : q.ok)]

\* the conflict target of handler k's upsert
ConKey(k) == IF k = "cron" THEN CronKey ELSE ScheduledKey

KeyOf(row) == <<row.manager_id, row.gw>>

\* the keys of the rows an upsert of rec writes: the conflicting rows, else the new row
Affected(table, rec, key) ==
    LET hits == Conflicting(table, rec, key) IN
    IF hits = {} THEN {KeyOf(RowOf(rec, NullRow))} ELSE {KeyOf(row) : row \in hits}

RECURSIVE LastFrom(_, _, _, _, _)
\* the history conLast after the upsert of recs[i..] has been applied to table
LastFrom(last, table, recs, key, i) ==
    IF i > Len(recs)
    THEN last
    ELSE LET hit == Affected(table, recs[i], key) IN
         LastFrom({p \in last : p[1] \notin hit} \cup {<<k, recs[i]>> : k \in hit},
                  UpsertOne(table, recs[i], key), recs, key, i + 1)

ConInit ==
    /\ conKind \in [Slots -> {"scheduled", "manual", "cron"}]
    /\ \E lists \in [Slots -> ConLists] :
        conRecs = [s \in Slots |-> ConRecords(conKind[s], lists[s])]
    /\ conIdx = [s \in Slots |-> 1]
    /\ conPc = [s \in Slots |-> "write"]
    /\ conStore = {}
    /\ conLast = {}
    /\ conLog = <<>>

ConIdle ==
    /\ conKind = [s \in Slots |-> "scheduled"]
    /\ conRecs = [s \in Slots |-> <<>>]
    /\ conIdx = [s \in Slots |-> 1]
    /\ conPc = [s \in Slots |-> "done"]
    /\ conStore = {}
    /\ conLast = {}
    /\ conLog = <<>>

\* the store applies the upsert of recs issued by invocation s
ConApply(s, recs) ==
    /\ conStore' = UpsertAll(conStore, recs, ConKey(conKind[s]))
    /\ conLast' = LastFrom(conLast, conStore, recs, ConKey(conKind[s]), 1)
    /\ conLog' = Append(conLog, s)

\* part_000 / part_001: the one upsert of managerData, and the response
ConBulkUpsert(s) ==
    /\ conPc[s] = "write"
    /\ conKind[s] \in {"scheduled", "manual"}
    /\ \E outcome \in StoreOutcomes(conStore, conRecs[s], ScheduledKey) :
        IF outcome = "ok"
        THEN ConApply(s, conRecs[s])
        ELSE UNCHANGED <<conStore, conLast, conLog>>
    /\ conPc' = [conPc EXCEPT ![s] = "done"]
    /\ UNCHANGED <<conKind, conRecs, conIdx, notCon>>

\* sync-fpl-data.js: the upsert of one manager in the loop
ConCronUpsert(s) ==
    /\ conPc[s] = "write"
    /\ conKind[s] = "cron"
    /\ conIdx[s] <= Len(conRecs[s])
    /\ LET recs == <<conRecs[s][conIdx[s]]>> IN
       \E outcome \in StoreOutcomes(conStore, recs, CronKey) :
        IF outcome = "ok"
        THEN ConApply(s, recs)
        ELSE UNCHANGED <<conStore, conLast, conLog>>
    /\ conIdx' = [conIdx EXCEPT ![s] = @ + 1]
    /\ UNCHANGED <<conKind, conRecs, conPc, notCon>>

\* sync-fpl-data.js: the loop has ended
ConCronEnd(s) ==
    /\ conPc[s] = "write"
    /\ conKind[s] = "cron"
    /\ conIdx[s] > Len(conRecs[s])
    /\ conPc' = [conPc EXCEPT ![s] = "done"]
    /\ UNCHANGED <<conKind, conRecs, conIdx, conStore, conLast, conLog, notCon>>

ConNext ==
    \/ \E s \in Slots : ConBulkUpsert(s)
    \/ \E s \in Slots : ConCronUpsert(s)
    \/ \E s \in Slots : ConCronEnd(s)

-----------------------------------------------------------------------------
(* Claims on what a sync run writes *)

\* C17: a step of a sync run deletes no snapshot row (every stored key stays stored) and
\* changes only rows whose key is (m, current period) for a manager m of the primary list
\* the run fetched; rows of other managers and of other periods stay as they are.
C17_SyncChangesOnlyCurrentKeys ==
    [][ (handler \in {"scheduled", "manual", "cron"}) =>
          ( /\ \A row \in manager_data : \E kept \in manager_data' : KeyOf(kept) = KeyOf(row)
            /\ \A row \in manager_data \ manager_data' :
                  (row.gw = currentGW /\ row.manager_id \in EntryIds(classicManagers)) )
      ]_vars

\* C18: a trigger run whose primary league yielded no manager (and in which nothing failed)
\* ends reporting success with zero managers processed, the snapshot table unchanged.
C18_EmptyLeagueIsSuccessfulNoOp ==
    [][ ( /\ handler \in {"scheduled", "manual", "cron"}
          /\ pc # "idle" /\ pc' = "idle"
          /\ nFetch' >= 2
          /\ classicManagers' = <<>>
          /\ ~failed' )
        => ( /\ response'.success = "true"
             /\ response'.processed = 0
             /\ manager_data' = manager_data )
      ]_vars

\* C19: the two paginators are observationally equivalent: a completed run of either one
\* returned the records, and issued the number of page requests (pages 1, 2, ... in order),
\* that the other one returns and issues against the same upstream answers.
C19_PaginatorsEquivalent ==
    (pgPc = "done" /\ served # <<>>) =>
        IF pgVariant = "fetchAllManagers"
        THEN /\ retval = getAllManagersFromLeague(served, 1)
             /\ Len(served) = RecRequests(served, 1)
        ELSE /\ retval = fetchAllManagers(served)
             /\ Len(served) = IterRequests(IterInit, served)

-----------------------------------------------------------------------------
(* Specifications *)

\* each specification starts the part it exercises and leaves the other parts at rest
InitPag == PagInit /\ GwIdle /\ RcIdle /\ SysIdle /\ ParIdle /\ ConIdle

InitGW == GwInit /\ PagIdle /\ RcIdle /\ SysIdle /\ ParIdle /\ ConIdle

InitRec == RcInit /\ PagIdle /\ GwIdle /\ SysIdle /\ ParIdle /\ ConIdle

Init == SysInit /\ PagIdle /\ GwIdle /\ RcIdle /\ ParIdle /\ ConIdle

InitAuth == AuthInit /\ PagIdle /\ GwIdle /\ RcIdle /\ ParIdle /\ ConIdle

InitCon == ConInit /\ PagIdle /\ GwIdle /\ RcIdle /\ SysIdle /\ ParIdle

InitPar == ParInit /\ PagIdle /\ GwIdle /\ RcIdle /\ SysIdle /\ ConIdle

SpecPag == InitPag /\ [][PagNext]_vars

SpecGW == InitGW /\ [][GwNext]_vars

SpecRec == InitRec /\ [][RcNext]_vars

Spec == Init /\ [][Next]_vars

SpecAuth == InitAuth /\ [][AuthNext]_vars

SpecPar == InitPar /\ [][ParNext]_vars

SpecCon == InitCon /\ [][ConNext]_vars

=============================================================================
